---- MODULE Spec2Model ----
(***************************************************************************)
(* Train.py: a straight-line script that loads MNIST, normalizes it,       *)
(* defines and trains a small convolutional network, evaluates it, saves   *)
(* it and converts it to Core ML.  The script is modelled statement by     *)
(* statement; the library calls it makes are modelled by their documented  *)
(* effect on the script's state, and each of them may raise.               *)
(***************************************************************************)
EXTENDS Integers, Sequences, FiniteSets

(***************************************************************************)
(* Bounds of the model: the sizes of the two partitions of the dataset     *)
(* (60000 and 10000 in MNIST).                                             *)
(***************************************************************************)
NTrain == 1
NTest == 1

(***************************************************************************)
(* Program constants.                                                      *)
(***************************************************************************)
MaxPixel == 255
ImgSide == 28
Channels == 1
Filters == 32
KernelSize == 3
PoolSize == 2
DenseUnits == 128
NumOutputs == 10
\* faulty variant: one epoch short
Epochs_four == 2 + 2
Epochs == 5
BatchDim == 1
MantBits == 53

(***************************************************************************)
(* IEEE-754 double precision, as Python and NumPy compute `x / 255.0` and  *)
(* `1/255.0`.  A finite non-negative double is [m, e] with value m * 2^e   *)
(* and 2^52 <= m < 2^53, or Zero.  The mantissa is a natural number of up  *)
(* to 64 bits, kept as four big-endian limbs in base 2^16.                 *)
(***************************************************************************)
LimbBase == 2^16

BigFromInt(n) == <<0, 0, 0, n>>

BigMulSmall(x, k) ==
  LET t4 == x[4] * k
      t3 == x[3] * k + (t4 \div LimbBase)
      t2 == x[2] * k + (t3 \div LimbBase)
      t1 == x[1] * k + (t2 \div LimbBase)
  IN  <<t1 % LimbBase, t2 % LimbBase, t3 % LimbBase, t4 % LimbBase>>

BigDivSmall(x, d) ==
  LET c1 == x[1]
      c2 == (c1 % d) * LimbBase + x[2]
      c3 == (c2 % d) * LimbBase + x[3]
      c4 == (c3 % d) * LimbBase + x[4]
  IN  [q |-> <<c1 \div d, c2 \div d, c3 \div d, c4 \div d>>, r |-> c4 % d]

BigSucc(x) ==
  LET t4 == x[4] + 1
      t3 == x[3] + (t4 \div LimbBase)
      t2 == x[2] + (t3 \div LimbBase)
      t1 == x[1] + (t2 \div LimbBase)
  IN  <<t1 % LimbBase, t2 % LimbBase, t3 % LimbBase, t4 % LimbBase>>

BigIsOdd(x) == x[4] % 2 = 1

\* 2^(MantBits-1) and 2^MantBits; the first limb has weight 2^48
MantMin == <<2^(MantBits - 49), 0, 0, 0>>
MantTop == <<2^(MantBits - 48), 0, 0, 0>>

\* m >= 2^(MantBits-1), m < 2^MantBits
BigAtLeastMin(x) == x[1] >= MantMin[1]
BigBelowTop(x) == x[1] < MantTop[1]

Zero == [m |-> <<0, 0, 0, 0>>, e |-> 0]
One == [m |-> MantMin, e |-> 1 - MantBits]

\* round to nearest, ties to even: q is the truncated mantissa, `up` and `tie`
\* say where the discarded part lies relative to half a unit in the last place
RoundNearestEven(q, e, up, tie) ==
  LET inc == up \/ (tie /\ BigIsOdd(q))
      m == IF inc THEN BigSucc(q) ELSE q
  IN  IF BigBelowTop(m) THEN [m |-> m, e |-> e] ELSE [m |-> MantMin, e |-> e + 1]

RECURSIVE DivScaled(_, _, _)
DivScaled(x, d, k) ==
  LET qr == BigDivSmall(x, d)
  IN  IF BigAtLeastMin(qr.q)
      THEN RoundNearestEven(qr.q, 0 - k, 2 * qr.r > d, 2 * qr.r = d)
      ELSE DivScaled(BigMulSmall(x, 2), d, k + 1)

\* the double nearest to p / d, for naturals p <= d < 2^16 (uint8 pixel / 255.0):
\* the mantissa is the rounded quotient of p * 2^k by d for the k that brings it
\* to 2^52 or more; p * 2^32 / d is still below that
FDiv(p, d) == IF p = 0 THEN Zero ELSE DivScaled(<<0, p, 0, 0>>, d, 32)

RECURSIVE MulNormalize(_, _, _)
MulNormalize(prod, e, s) ==
  LET qr == BigDivSmall(prod, 2^s)
  IN  IF BigBelowTop(qr.q)
      THEN RoundNearestEven(qr.q, e + s, 2 * qr.r > 2^s, 2 * qr.r = 2^s)
      ELSE MulNormalize(prod, e, s + 1)

\* the double nearest to p * f, for a natural p <= 255 and a double f
FMul(p, f) ==
  IF p = 0 \/ f = Zero THEN Zero ELSE MulNormalize(BigMulSmall(f.m, p), f.e, 0)

(***************************************************************************)
(* The state of the run.                                                   *)
(*   mnist      the dataset the loader serves (outside the script)         *)
(*   pc         the statement about to be executed                         *)
(*   raised     the statement whose library call raised, or "none"         *)
(*   x_train .. y_test, model, test_loss, test_acc, mlmodel                *)
(*              the script's module-level names                            *)
(*   fitrun     progress of the one call of model.fit                      *)
(*   acc_of     the parameters model.evaluate measured                     *)
(*   stdout     what print has written                                     *)
(*   files      the files the script's calls have created                  *)
(*   writes     the paths of the completed writes, in order                *)
(*   trace      the statements completed, in order                         *)
(***************************************************************************)
VARIABLES mnist, pc, raised, x_train, y_train, x_test, y_test, model, fitrun,
          test_loss, test_acc, acc_of, stdout, files, writes, mlmodel, trace

vars == <<mnist, pc, raised, x_train, y_train, x_test, y_test, model, fitrun,
          test_loss, test_acc, acc_of, stdout, files, writes, mlmodel, trace>>

Labels == 0 .. (NumOutputs - 1)
Pixels == 0 .. MaxPixel

\* every labelling of the images, all pixels at mid-grey
LabelDatasets ==
  { [x_train |-> [i \in 1..NTrain |-> MaxPixel \div 2], y_train |-> yt,
     x_test |-> [i \in 1..NTest |-> MaxPixel \div 2], y_test |-> ys] :
      yt \in [1..NTrain -> Labels], ys \in [1..NTest -> Labels] }

\* every raw pixel value, under one labelling
PixelDatasets ==
  { [x_train |-> [i \in 1..NTrain |-> q], y_train |-> [i \in 1..NTrain |-> (i - 1) % NumOutputs],
     x_test |-> [i \in 1..NTest |-> q], y_test |-> [i \in 1..NTest |-> i % NumOutputs]] :
      q \in Pixels }

Datasets == LabelDatasets \cup PixelDatasets

UnboundArray == [shape |-> <<>>, dtype |-> "unbound", data |-> <<>>]
UnboundModel == [bound |-> FALSE, layers |-> <<>>, compiled |-> FALSE,
                 optimizer |-> "", loss |-> "", metrics |-> <<>>, params |-> <<>>]
UnboundMlmodel == [bound |-> FALSE, inputs |-> <<>>, outputs |-> <<>>,
                   layers |-> <<>>, params |-> <<>>]
UnboundNumber == [bound |-> FALSE, num |-> 0, den |-> 1]

(***************************************************************************)
(* The statements, in program order.                                       *)
(***************************************************************************)
\* faulty variant: the model is saved before the accuracy is printed
NextStage_printAfterSave(s) ==
  CASE s = "load" -> "normalize"
    [] s = "normalize" -> "define"
    [] s = "define" -> "compile"
    [] s = "compile" -> "fit"
    [] s = "fit" -> "evaluate"
    [] s = "evaluate" -> "save"
    [] s = "save" -> "print"
    [] s = "print" -> "convert"
    [] s = "convert" -> "save_mlmodel"
    [] s = "save_mlmodel" -> "done"
    [] OTHER -> "done"

NextStage(s) ==
  CASE s = "load" -> "normalize"
    [] s = "normalize" -> "define"
    [] s = "define" -> "compile"
    [] s = "compile" -> "fit"
    [] s = "fit" -> "evaluate"
    [] s = "evaluate" -> "print"
    [] s = "print" -> "save"
    [] s = "save" -> "convert"
    [] s = "convert" -> "save_mlmodel"
    [] s = "save_mlmodel" -> "done"
    [] OTHER -> "done"

\* faulty variant: the run goes on after an exception
Running_afterRaise(s) == pc = s

Running(s) == pc = s /\ raised = "none"

Advance == /\ pc' = NextStage(pc)
           /\ trace' = Append(trace, pc)
           /\ raised' = raised

(***************************************************************************)
(* line 7: (x_train, y_train), (x_test, y_test) = mnist.load_data()        *)
(* The loader returns uint8 images of shape (n, 28, 28), without a channel *)
(* axis, and uint8 labels of shape (n,).                                   *)
(***************************************************************************)
LoadedImages(raw) ==
  [shape |-> <<Len(raw), ImgSide, ImgSide>>, dtype |-> "uint8", data |-> raw]

Load ==
  /\ Running("load")
  /\ x_train' = LoadedImages(mnist.x_train)
  /\ y_train' = mnist.y_train
  /\ x_test' = LoadedImages(mnist.x_test)
  /\ y_test' = mnist.y_test
  /\ Advance
  /\ UNCHANGED <<mnist, model, fitrun, test_loss, test_acc, acc_of, stdout,
                 files, writes, mlmodel>>

(***************************************************************************)
(* line 8: x_train, x_test = x_train / 255.0, x_test / 255.0               *)
(* NumPy divides elementwise in float64 and keeps the shape.               *)
(***************************************************************************)
ArrayDiv(a, d) ==
  [shape |-> a.shape, dtype |-> "float64",
   data |-> [i \in 1..Len(a.data) |-> FDiv(a.data[i], d)]]

\* faulty variant: the test partition is left unnormalized
NormalizedPair_trainOnly == <<ArrayDiv(x_train, MaxPixel), x_test>>

NormalizedPair == <<ArrayDiv(x_train, MaxPixel), ArrayDiv(x_test, MaxPixel)>>

Normalize ==
  /\ Running("normalize")
  /\ x_train' = NormalizedPair[1]
  /\ x_test' = NormalizedPair[2]
  /\ Advance
  /\ UNCHANGED <<mnist, y_train, y_test, model, fitrun, test_loss, test_acc,
                 acc_of, stdout, files, writes, mlmodel>>

(***************************************************************************)
(* lines 10-16: model = Sequential([...])                                  *)
(***************************************************************************)
InputShape == <<ImgSide, ImgSide, Channels>>

Layer(kind, n, size, activation, input_shape) ==
  [kind |-> kind, n |-> n, size |-> size, activation |-> activation,
   input_shape |-> input_shape]

\* faulty variant: one output unit short
ModelLayers_nineOutputs ==
  << Layer("Conv2D", Filters, KernelSize, "relu", InputShape),
     Layer("MaxPooling2D", 0, PoolSize, "none", <<>>),
     Layer("Flatten", 0, 0, "none", <<>>),
     Layer("Dense", DenseUnits, 0, "relu", <<>>),
     Layer("Dense", NumOutputs - 1, 0, "softmax", <<>>) >>

ModelLayers ==
  << Layer("Conv2D", Filters, KernelSize, "relu", InputShape),
     Layer("MaxPooling2D", 0, PoolSize, "none", <<>>),
     Layer("Flatten", 0, 0, "none", <<>>),
     Layer("Dense", DenseUnits, 0, "relu", <<>>),
     Layer("Dense", NumOutputs, 0, "softmax", <<>>) >>

\* the output shape of one layer: Conv2D and MaxPooling2D with their default
\* padding "valid", the convolution with stride 1, the pooling with stride
\* equal to its size
RECURSIVE Product(_)
Product(s) == IF s = <<>> THEN 1 ELSE Head(s) * Product(Tail(s))

LayerOut(l, s) ==
  CASE l.kind = "Conv2D" -> <<s[1] - l.size + 1, s[2] - l.size + 1, l.n>>
    [] l.kind = "MaxPooling2D" ->
         <<(s[1] - l.size) \div l.size + 1, (s[2] - l.size) \div l.size + 1, s[3]>>
    [] l.kind = "Flatten" -> <<Product(s)>>
    [] l.kind = "Dense" -> SubSeq(s, 1, Len(s) - 1) \o <<l.n>>

RECURSIVE ShapeChain(_, _)
ShapeChain(layers, s) ==
  IF layers = <<>> THEN <<>>
  ELSE LET out == LayerOut(Head(layers), s)
       IN  <<out>> \o ShapeChain(Tail(layers), out)

OutputUnits(layers) ==
  LET chain == ShapeChain(layers, layers[1].input_shape)
  IN  chain[Len(chain)][1]

Define ==
  /\ Running("define")
  /\ model' = [UnboundModel EXCEPT !.bound = TRUE, !.layers = ModelLayers]
  /\ Advance
  /\ UNCHANGED <<mnist, x_train, y_train, x_test, y_test, fitrun, test_loss,
                 test_acc, acc_of, stdout, files, writes, mlmodel>>

(***************************************************************************)
(* line 18: model.compile(optimizer='adam',                                *)
(*            loss='sparse_categorical_crossentropy', metrics=['accuracy'])*)
(***************************************************************************)
Compile ==
  /\ Running("compile")
  /\ model' = [model EXCEPT !.compiled = TRUE, !.optimizer = "adam",
                            !.loss = "sparse_categorical_crossentropy",
                            !.metrics = <<"accuracy">>]
  /\ Advance
  /\ UNCHANGED <<mnist, x_train, y_train, x_test, y_test, fitrun, test_loss,
                 test_acc, acc_of, stdout, files, writes, mlmodel>>

(***************************************************************************)
(* line 19: model.fit(x_train, y_train, epochs=5,                          *)
(*                    validation_data=(x_test, y_test))                    *)
(* One call: for each epoch a pass over the training data, which updates   *)
(* the parameters, then a pass over the validation data, which only        *)
(* measures.  The parameters are kept as the list of updates made to them. *)
(***************************************************************************)
\* faulty variant: fit is given the test partition to train on
FitArgs_trainsOnTest ==
  [x |-> "x_test", y |-> "y_test", epochs |-> Epochs,
   validation_data |-> <<"x_test", "y_test">>]

FitArgs ==
  [x |-> "x_train", y |-> "y_train", epochs |-> Epochs,
   validation_data |-> <<"x_test", "y_test">>]

FitBegin ==
  /\ Running("fit")
  /\ fitrun.phase = "idle"
  /\ fitrun' = [fitrun EXCEPT !.calls = @ + 1, !.phase = "train"]
  /\ UNCHANGED <<mnist, pc, raised, x_train, y_train, x_test, y_test, model,
                 test_loss, test_acc, acc_of, stdout, files, writes, mlmodel, trace>>

FitTrainPass ==
  /\ Running("fit")
  /\ fitrun.phase = "train"
  /\ fitrun.epoch < FitArgs.epochs
  /\ model' = [model EXCEPT !.params =
                 Append(@, [epoch |-> fitrun.epoch + 1, x |-> FitArgs.x, y |-> FitArgs.y])]
  /\ fitrun' = [fitrun EXCEPT !.phase = "validate"]
  /\ UNCHANGED <<mnist, pc, raised, x_train, y_train, x_test, y_test,
                 test_loss, test_acc, acc_of, stdout, files, writes, mlmodel, trace>>

FitValidationPass ==
  /\ Running("fit")
  /\ fitrun.phase = "validate"
  /\ fitrun' = [fitrun EXCEPT !.phase = "train", !.epoch = @ + 1,
                              !.val_passes = Append(@, FitArgs.validation_data)]
  /\ UNCHANGED <<mnist, pc, raised, x_train, y_train, x_test, y_test, model,
                 test_loss, test_acc, acc_of, stdout, files, writes, mlmodel, trace>>

FitReturn ==
  /\ Running("fit")
  /\ fitrun.phase = "train"
  /\ fitrun.epoch = FitArgs.epochs
  /\ fitrun' = [fitrun EXCEPT !.phase = "returned"]
  /\ Advance
  /\ UNCHANGED <<mnist, x_train, y_train, x_test, y_test, model,
                 test_loss, test_acc, acc_of, stdout, files, writes, mlmodel>>

(***************************************************************************)
(* line 21: test_loss, test_acc = model.evaluate(x_test, y_test)           *)
(* With metrics=['accuracy'] and integer labels the second value is the    *)
(* fraction of samples whose predicted class (one of the output units)     *)
(* equals the label.  The network's predictions and its loss are opaque:   *)
(* any prediction per image, and a loss from a few sample values.          *)
(***************************************************************************)
EvaluateArgs == [x |-> "x_test", y |-> "y_test"]

Value(name) ==
  CASE name = "x_train" -> x_train
    [] name = "y_train" -> y_train
    [] name = "x_test" -> x_test
    [] name = "y_test" -> y_test

LossSamples == {[bound |-> TRUE, num |-> 1, den |-> 2], [bound |-> TRUE, num |-> 3, den |-> 2]}

Evaluate ==
  /\ Running("evaluate")
  /\ LET y == Value(EvaluateArgs.y)
         n == Len(Value(EvaluateArgs.x).data)
     IN  \E pred \in [1..n -> 0 .. (OutputUnits(model.layers) - 1)] :
           test_acc' = [bound |-> TRUE,
                        num |-> Cardinality({i \in 1..n : pred[i] = y[i]}),
                        den |-> n]
  /\ test_loss' \in LossSamples
  /\ acc_of' = model.params
  /\ Advance
  /\ UNCHANGED <<mnist, x_train, y_train, x_test, y_test, model, fitrun,
                 stdout, files, writes, mlmodel>>

(***************************************************************************)
(* line 22: print('\ntest accuracy:', test_acc)                            *)
(***************************************************************************)
\* faulty variant: the loss is printed in place of the accuracy
Printed_loss == test_loss

Printed == test_acc

PrintAccuracy ==
  /\ Running("print")
  /\ stdout' = Append(stdout, Printed)
  /\ Advance
  /\ UNCHANGED <<mnist, x_train, y_train, x_test, y_test, model, fitrun,
                 test_loss, test_acc, acc_of, files, writes, mlmodel>>

(***************************************************************************)
(* line 23: model.save('mnist_model.h5')                                   *)
(***************************************************************************)
H5Path == "mnist_model.h5"

Written(content) == [state |-> "complete", content |-> content]
Partial == [state |-> "partial", content |-> UnboundMlmodel]

WriteFile(path, content) ==
  [n \in DOMAIN files \cup {path} |-> IF n = path THEN content ELSE files[n]]

Save ==
  /\ Running("save")
  /\ files' = WriteFile(H5Path, Written([UnboundMlmodel EXCEPT !.layers = model.layers,
                                                               !.params = model.params]))
  /\ writes' = Append(writes, H5Path)
  /\ Advance
  /\ UNCHANGED <<mnist, x_train, y_train, x_test, y_test, model, fitrun,
                 test_loss, test_acc, acc_of, stdout, mlmodel>>

(***************************************************************************)
(* line 24: mlmodel = ct.convert('mnist_model.h5',                         *)
(*   inputs=[ct.ImageType(name="image", shape=(1, 28, 28, 1),              *)
(*                        scale=1/255.0)])                                 *)
(* The converter reads the file named; it raises when the file is missing  *)
(* or incomplete.                                                          *)
(***************************************************************************)
ConvertSource == "mnist_model.h5"

ImageType(name, shape, scale) ==
  [type |-> "ImageType", name |-> name, shape |-> shape, scale |-> scale]

\* faulty variant: the image input is left unscaled
ConvertInputs_noScale ==
  << ImageType("image", <<BatchDim, ImgSide, ImgSide, Channels>>, One) >>

ConvertInputs ==
  << ImageType("image", <<BatchDim, ImgSide, ImgSide, Channels>>, FDiv(1, MaxPixel)) >>

ConvertOutputs == <<>>

Convert ==
  /\ Running("convert")
  /\ ConvertSource \in DOMAIN files
  /\ files[ConvertSource].state = "complete"
  /\ mlmodel' = [bound |-> TRUE, inputs |-> ConvertInputs, outputs |-> ConvertOutputs,
                 layers |-> files[ConvertSource].content.layers,
                 params |-> files[ConvertSource].content.params]
  /\ Advance
  /\ UNCHANGED <<mnist, x_train, y_train, x_test, y_test, model, fitrun,
                 test_loss, test_acc, acc_of, stdout, files, writes>>

(***************************************************************************)
(* line 25: mlmodel.save('MNISTClassifier.mlmodel')                        *)
(***************************************************************************)
\* faulty variant: the converted model overwrites the Keras file
MlmodelPath_sameAsH5 == "mnist_model.h5"

MlmodelPath == "MNISTClassifier.mlmodel"

SaveMlmodel ==
  /\ Running("save_mlmodel")
  /\ files' = WriteFile(MlmodelPath, Written(mlmodel))
  /\ writes' = Append(writes, MlmodelPath)
  /\ Advance
  /\ UNCHANGED <<mnist, x_train, y_train, x_test, y_test, model, fitrun,
                 test_loss, test_acc, acc_of, stdout, mlmodel>>

(***************************************************************************)
(* A library call raises.  The script has no try/except: the exception     *)
(* ends the run at that statement, and nothing is cleaned up.  A save that *)
(* raises leaves its file as it was or created but incomplete.             *)
(***************************************************************************)
Raise ==
  /\ pc # "done"
  /\ raised = "none"
  /\ raised' = pc
  /\ \/ files' = files
     \/ pc = "save" /\ files' = WriteFile(H5Path, Partial)
     \/ pc = "save_mlmodel" /\ files' = WriteFile(MlmodelPath, Partial)
  /\ UNCHANGED <<mnist, pc, x_train, y_train, x_test, y_test, model, fitrun,
                 test_loss, test_acc, acc_of, stdout, writes, mlmodel, trace>>

Init ==
  /\ mnist \in Datasets
  /\ pc = "load"
  /\ raised = "none"
  /\ x_train = UnboundArray
  /\ y_train = <<>>
  /\ x_test = UnboundArray
  /\ y_test = <<>>
  /\ model = UnboundModel
  /\ fitrun = [calls |-> 0, phase |-> "idle", epoch |-> 0, val_passes |-> <<>>]
  /\ test_loss = UnboundNumber
  /\ test_acc = UnboundNumber
  /\ acc_of = <<>>
  /\ stdout = <<>>
  /\ files = [n \in {} |-> Partial]
  /\ writes = <<>>
  /\ mlmodel = UnboundMlmodel
  /\ trace = <<>>

Next ==
  \/ Load
  \/ Normalize
  \/ Define
  \/ Compile
  \/ FitBegin
  \/ FitTrainPass
  \/ FitValidationPass
  \/ FitReturn
  \/ Evaluate
  \/ PrintAccuracy
  \/ Save
  \/ Convert
  \/ SaveMlmodel
  \/ Raise

Spec == Init /\ [][Next]_vars

\* the runs over every raw pixel value
InitPixels == Init /\ mnist \in PixelDatasets

PixelSpec == InitPixels /\ [][Next]_vars

\* a running Python program executes its next statement
FairSpec == InitPixels /\ [][Next]_vars /\ WF_vars(Next)

(***************************************************************************)
(* The properties.                                                         *)
(***************************************************************************)
Range(f) == {f[i] : i \in DOMAIN f}

StageOrder == <<"load", "normalize", "define", "compile", "fit", "evaluate",
                "print", "save", "convert", "save_mlmodel">>

StagesBefore(s) ==
  IF \E i \in DOMAIN StageOrder : StageOrder[i] = s
  THEN SubSeq(StageOrder, 1, (CHOOSE i \in DOMAIN StageOrder : StageOrder[i] = s) - 1)
  ELSE StageOrder

Complete(path) == path \in DOMAIN files /\ files[path].state = "complete"

\* f <= 1.0
FLeqOne(f) == f = Zero \/ f.e < 1 - MantBits \/ f = One

\* neighbouring doubles: equal, or one unit in the last place apart
FWithinOneUlp(a, b) ==
  \/ a = b
  \/ a # Zero /\ b # Zero /\ a.e = b.e /\ (BigSucc(a.m) = b.m \/ BigSucc(b.m) = a.m)
  \/ a # Zero /\ b # Zero /\ a.e = b.e + 1 /\ a.m = MantMin /\ BigSucc(b.m) = MantTop
  \/ a # Zero /\ b # Zero /\ b.e = a.e + 1 /\ b.m = MantMin /\ BigSucc(a.m) = MantTop

\* C1: a run that completes has written exactly the two files mnist_model.h5
\* and MNISTClassifier.mlmodel, each exactly once.
C1_TwoFilesEachWrittenOnce ==
  pc = "done" =>
    /\ DOMAIN files = {"mnist_model.h5", "MNISTClassifier.mlmodel"}
    /\ \A n \in DOMAIN files : files[n].state = "complete"
    /\ writes = <<"mnist_model.h5", "MNISTClassifier.mlmodel">>

C1_Witness == pc = "done" /\ Len(writes) = 2 /\ raised = "none"

\* C2: the statements run in the one fixed order, none twice; the conversion
\* reads mnist_model.h5 only after model.save has written it, and the accuracy
\* is printed before any file is written.
C2_FixedOrder ==
  /\ trace = StagesBefore(pc)
  /\ mlmodel.bound =>
       /\ Complete("mnist_model.h5")
       /\ \E i, j \in DOMAIN trace : i < j /\ trace[i] = "save" /\ trace[j] = "convert"
  /\ DOMAIN files # {} => Len(stdout) = 1 /\ "print" \in Range(trace)

C2_Witness == pc = "done" /\ Len(trace) = 10 /\ mlmodel.bound

\* C3: fit is called once and makes exactly 5 passes over the training data,
\* each followed by one validation pass, then returns; and unless a library
\* call raises the script reaches its end.
C3_TrainingCompletes ==
  /\ [](/\ fitrun.calls <= 1
        /\ Len(fitrun.val_passes) = fitrun.epoch
        /\ Len(model.params) = fitrun.epoch + (IF fitrun.phase = "validate" THEN 1 ELSE 0)
        /\ "fit" \in Range(trace) =>
             fitrun.calls = 1 /\ fitrun.epoch = 5 /\ fitrun.phase = "returned")
  /\ <>(pc = "done" \/ raised # "none")

C3_Witness == pc = "done" /\ fitrun.epoch = 5 /\ Len(fitrun.val_passes) = 5

\* C4: the accuracy printed is test_acc, the number of correctly classified
\* test images over the non-zero number of test images, so it lies in [0,1].
C4_AccuracyInUnitInterval ==
  stdout # <<>> =>
    /\ stdout = <<test_acc>>
    /\ stdout[1].bound
    /\ stdout[1].den = Len(y_test)
    /\ stdout[1].den > 0
    /\ 0 <= stdout[1].num
    /\ stdout[1].num <= stdout[1].den

C4_Witness == stdout # <<>> /\ stdout[1].num = stdout[1].den /\ stdout[1].den = NTest

\* C5 as claimed: once a call has raised the run stays at that statement; a
\* failure before model.save leaves no file, and a failure in ct.convert or
\* mlmodel.save leaves mnist_model.h5 written and MNISTClassifier.mlmodel absent.
C5_FailureLeavesMlmodelAbsent ==
  raised # "none" =>
    /\ pc = raised
    /\ trace = StagesBefore(raised)
    /\ "save" \notin Range(trace) /\ raised # "save" => DOMAIN files = {}
    /\ raised \in {"convert", "save_mlmodel"} =>
         /\ Complete("mnist_model.h5")
         /\ "MNISTClassifier.mlmodel" \notin DOMAIN files

\* C5 as amended: once a call has raised nothing more happens; a failure before
\* model.save leaves no file, and a failure in ct.convert or mlmodel.save leaves
\* mnist_model.h5 written and MNISTClassifier.mlmodel not written: absent after
\* ct.convert failed, absent or incomplete after mlmodel.save failed.
C5_NoRecovery ==
  /\ [][raised # "none" => UNCHANGED vars]_vars
  /\ [](raised # "none" =>
          /\ pc = raised
          /\ trace = StagesBefore(raised)
          /\ "save" \notin Range(trace) /\ raised # "save" => DOMAIN files = {}
          /\ raised \in {"convert", "save_mlmodel"} =>
               /\ Complete("mnist_model.h5")
               /\ ~Complete("MNISTClassifier.mlmodel")
               /\ raised = "convert" => "MNISTClassifier.mlmodel" \notin DOMAIN files)

C5_Witness ==
  /\ raised = "save_mlmodel"
  /\ Complete("mnist_model.h5")
  /\ "MNISTClassifier.mlmodel" \in DOMAIN files

\* C6: the converted model has exactly one configured input descriptor, the
\* image input "image" of shape (1, 28, 28, 1) with scale 1/255 (the double
\* 0x1.0101010101010p-8), and no configured output descriptor.
C6_OneInputDescriptor ==
  mlmodel.bound =>
    /\ mlmodel.inputs =
         << [type |-> "ImageType", name |-> "image", shape |-> <<1, 28, 28, 1>>,
             scale |-> [m |-> <<16, 4112, 4112, 4112>>, e |-> -60]] >>
    /\ mlmodel.outputs = <<>>

C6_Witness == mlmodel.bound /\ Len(mlmodel.inputs) = 1 /\ pc = "save_mlmodel"

\* C7: the images handed to fit and evaluate have the per-sample shape the
\* first layer declares, (28, 28, 1), which is the per-sample shape of the
\* converted model's input descriptor; normalization keeps the loader's shape.
C7_SampleShapeIsDeclaredInputShape ==
  fitrun.calls > 0 =>
    /\ x_train.shape = LoadedImages(mnist.x_train).shape
    /\ x_test.shape = LoadedImages(mnist.x_test).shape
    /\ Tail(x_train.shape) = model.layers[1].input_shape
    /\ Tail(x_test.shape) = model.layers[1].input_shape
    /\ model.layers[1].input_shape = <<28, 28, 1>>
    /\ mlmodel.bound => Tail(mlmodel.inputs[1].shape) = Tail(x_test.shape)

\* C8 as claimed: for every raw pixel the value trained on, p / 255.0, equals
\* the value the converted model computes, p * scale.
C8_ScaledEqualsDivided ==
  mlmodel.bound =>
    \A i \in DOMAIN x_train.data :
      x_train.data[i] = FMul(mnist.x_train[i], mlmodel.inputs[1].scale)

\* C8 as amended: both partitions are divided by 255.0 once and identically;
\* the converted model scales once; for every raw pixel p the doubles p / 255.0
\* and p * (1/255.0) lie in [0,1] and are at most one unit in the last place
\* apart.
C8_SamePreprocessingUpToRounding ==
  /\ "normalize" \in Range(trace) =>
       /\ x_train.dtype = "float64" /\ x_test.dtype = "float64"
       /\ \A i \in DOMAIN x_train.data :
            x_train.data[i] = FDiv(mnist.x_train[i], 255) /\ FLeqOne(x_train.data[i])
       /\ \A i \in DOMAIN x_test.data :
            x_test.data[i] = FDiv(mnist.x_test[i], 255) /\ FLeqOne(x_test.data[i])
  /\ mlmodel.bound =>
       /\ Len(mlmodel.inputs) = 1
       /\ \A l \in Range(mlmodel.layers) : l.kind \in {"Conv2D", "MaxPooling2D", "Flatten", "Dense"}
       /\ \A i \in DOMAIN x_test.data :
            LET v == FMul(mnist.x_test[i], mlmodel.inputs[1].scale)
            IN  FLeqOne(v) /\ FWithinOneUlp(x_test.data[i], v)
       /\ \A i \in DOMAIN x_train.data :
            LET v == FMul(mnist.x_train[i], mlmodel.inputs[1].scale)
            IN  FLeqOne(v) /\ FWithinOneUlp(x_train.data[i], v)

C8_Witness ==
  /\ mlmodel.bound
  /\ x_train.data[1] # FMul(mnist.x_train[1], mlmodel.inputs[1].scale)

\* C9: the parameters change only in the training passes of fit, from the
\* training partition; validation, evaluate, print, save and convert leave
\* them alone, so the parameters saved and converted are those after the 5th
\* epoch, the ones whose accuracy was reported.
C9_ParametersOnlyFromTraining ==
  /\ [][model.params' # model.params =>
          /\ pc = "fit" /\ fitrun.phase = "train" /\ fitrun'.phase = "validate"
          /\ fitrun'.val_passes = fitrun.val_passes]_vars
  /\ [](\A u \in Range(model.params) : u.x = "x_train" /\ u.y = "y_train")
  /\ [](\A v \in Range(fitrun.val_passes) : v = <<"x_test", "y_test">>)
  /\ [](test_acc.bound =>
          /\ acc_of = model.params
          /\ Len(acc_of) = 5
          /\ \A k \in 1..5 : acc_of[k].epoch = k)
  /\ [](Complete("mnist_model.h5") => files["mnist_model.h5"].content.params = acc_of)
  /\ [](mlmodel.bound => mlmodel.params = acc_of)
  /\ [](stdout # <<>> => stdout[1] = test_acc)

C9_Witness ==
  /\ pc = "done"
  /\ Len(model.params) = 5
  /\ mlmodel.params = model.params
  /\ files["mnist_model.h5"].content.params = model.params

\* C10: the layer shapes chain 28x28x1 -> 26x26x32 -> 13x13x32 -> 5408 -> 128
\* -> 10, and every label of the dataset (0..9) indexes one of the 10 outputs.
C10_ShapesChainAndLabelsFit ==
  model.bound =>
    /\ model.layers[1].input_shape = <<28, 28, 1>>
    /\ ShapeChain(model.layers, model.layers[1].input_shape) =
         << <<26, 26, 32>>, <<13, 13, 32>>, <<5408>>, <<128>>, <<10>> >>
    /\ model.compiled => model.loss = "sparse_categorical_crossentropy"
    /\ \A y \in Range(y_train) \cup Range(y_test) :
         0 <= y /\ y < OutputUnits(model.layers)
    /\ Range(mnist.y_train) \cup Range(mnist.y_test) \subseteq 0..9

C10_Witness ==
  /\ model.compiled
  /\ \E i \in DOMAIN y_test : y_test[i] = 9
  /\ \E i \in DOMAIN y_train : y_train[i] = 0

====
